---- MODULE Spec2Model ----
(***************************************************************************)
(* Model of mcp_server_git/server.py: the tool dispatcher (call_tool), the *)
(* path guard (validate_repo_path), the per-operation command builders     *)
(* (git_status .. git_branch) and the repository resolver (list_repos).    *)
(*                                                                         *)
(* A string is a sequence of pieces.  Every string that reaches a path or  *)
(* a command line is spelled one character per piece, so that startswith,  *)
(* splitting on "/" and concatenation are computed as the code computes    *)
(* them.  Labels and messages of responses are literal pieces.             *)
(* An optional value is <<>> (absent / None) or <<v>>.                     *)
(***************************************************************************)
EXTENDS Integers, Sequences, FiniteSets, TLC

VARIABLES
    repository,   \* serve(repository): the allowed root, a Path or None
    heads,        \* per repository directory: the branch names it holds
    active,       \* per repository directory: the checked-out branch
    staged,       \* per repository directory: whether the index holds staged changes
    pc,           \* position of the request in call_tool
    name,         \* call_tool's name argument
    arguments,    \* call_tool's arguments mapping
    resolved,     \* validate_repo_path's locals resolved_repo / resolved_allowed
    repo,         \* the handle git.Repo(repo_path) returned, if any
    calls,        \* every call the request made, in order
    out,          \* what the operation's builder returned
    result,       \* the response, or the exception raised
    session,      \* list_repos: the session (roots capability, advertised roots)
    lpc,          \* position of list_repos
    rootsQueries, \* list_repos: list_roots() requests sent to the session
    listed,       \* what list_repos returned or raised
    other         \* a second invocation of call_tool in flight: its locals

reqVars == <<pc, name, arguments, resolved, repo, calls, out, result>>
gitVars == <<heads, active, staged>>
lstVars == <<session, lpc, rootsQueries, listed>>
vars == <<repository, heads, active, staged, pc, name, arguments, resolved,
          repo, calls, out, result, session, lpc, rootsQueries, listed, other>>

-----------------------------------------------------------------------------
(* Optional values and Python truthiness *)

Absent == <<>>
Some(v) == <<v>>
Has(a, k) == a[k] # <<>>
Val(a, k) == a[k][1]
\* arguments.get(k, default)
Get(a, k, default) == IF Has(a, k) THEN Val(a, k) ELSE default
\* `if x:` for an optional string or list: None, "" and [] are falsy
Truthy(a, k) == Has(a, k) /\ Val(a, k) # <<>>

-----------------------------------------------------------------------------
(* Strings *)

StartsWithDash(s) == Len(s) > 0 /\ s[1] = "-"

Digits == <<"0", "1", "2", "3", "4", "5", "6", "7", "8", "9">>

RECURSIVE NatToStr(_)
NatToStr(n) ==
    IF n < 10 THEN <<Digits[n + 1]>>
    ELSE NatToStr(n \div 10) \o <<Digits[(n % 10) + 1]>>

\* f"{n}" for an int
IntToStr(n) == IF n < 0 THEN <<"-">> \o NatToStr(0 - n) ELSE NatToStr(n)

SepStr == <<"-", "-">>
DotStr == <<".">>
ThreeDots == <<".", ".", ".">>
UnifiedStr == <<"-", "-", "u", "n", "i", "f", "i", "e", "d", "=">>
CachedStr == <<"-", "-", "c", "a", "c", "h", "e", "d">>
ContainsStr == <<"-", "-", "c", "o", "n", "t", "a", "i", "n", "s">>
NoContainsStr == <<"-", "-", "n", "o", "-", "c", "o", "n", "t", "a", "i", "n", "s">>

-----------------------------------------------------------------------------
(* Paths: pathlib.Path over a small file system *)

DotDot == <<".", ".">>

\* The pieces of s between "/" characters, from index i on, cur being the
\* piece under construction.
RECURSIVE SplitSlash(_, _, _)
SplitSlash(s, i, cur) ==
    IF i > Len(s) THEN <<cur>>
    ELSE IF s[i] = "/" THEN <<cur>> \o SplitSlash(s, i + 1, <<>>)
    ELSE SplitSlash(s, i + 1, Append(cur, s[i]))

\* Path(s): the anchor and the parts; empty and "." parts are dropped
PathOf(s) ==
    [abs |-> Len(s) > 0 /\ s[1] = "/",
     parts |-> SelectSeq(SplitSlash(s, 1, <<>>), LAMBDA x : x # <<>> /\ x # DotStr)]

RECURSIVE JoinParts(_)
JoinParts(ps) ==
    IF ps = <<>> THEN <<>>
    ELSE IF Len(ps) = 1 THEN ps[1]
    ELSE ps[1] \o <<"/">> \o JoinParts(Tail(ps))

\* str(path)
PathStr(p) ==
    IF p.abs THEN <<"/">> \o JoinParts(p.parts)
    ELSE IF p.parts = <<>> THEN DotStr
    ELSE JoinParts(p.parts)

SegA == <<"a">>
SegAO == <<"a", "-", "o">>
SegS == <<"s">>
SegE == <<"e">>
SegL == <<"l">>
SegK == <<"k">>
SegX == <<"x">>

\* The file system the server runs on: directories, symbolic links (each to
\* an absolute target), the directories that are git working trees, and the
\* process's working directory.
Dirs == {<<>>, <<SegA>>, <<SegA, SegS>>, <<SegAO>>, <<SegE>>}
Links == {<<SegL>>, <<SegA, SegK>>, <<SegX>>}
ReadLink(l) ==
    CASE l = <<SegL>> -> <<SegA>>
      [] l = <<SegA, SegK>> -> <<SegE>>
      [] l = <<SegX>> -> <<SegX>>
RepoDirs == {<<SegA>>, <<SegE>>}
Cwd == <<SegA>>

\* os.path.realpath (non-strict): follows links left to right, pops on "..",
\* and gives up on a link it is already following (a loop).
RECURSIVE JoinRealPath(_, _, _)
JoinRealPath(cur, rest, seen) ==
    IF rest = <<>> THEN [loop |-> FALSE, parts |-> cur]
    ELSE LET nm == Head(rest)
             tl == Tail(rest)
             new == Append(cur, nm)
         IN IF nm = DotDot
            THEN JoinRealPath(IF cur = <<>> THEN <<>> ELSE SubSeq(cur, 1, Len(cur) - 1),
                              tl, seen)
            ELSE IF new \notin Links THEN JoinRealPath(new, tl, seen)
            ELSE IF new \in seen THEN [loop |-> TRUE, parts |-> new \o tl]
            ELSE LET r == JoinRealPath(<<>>, ReadLink(new), seen \cup {new})
                 IN IF r.loop THEN [loop |-> TRUE, parts |-> r.parts \o tl]
                    ELSE JoinRealPath(r.parts, tl, seen)

\* Path.resolve(): absolute, links followed.  A link loop raises RuntimeError
\* when the running Python raises on loops (eloop), and is left unresolved
\* otherwise.
Resolve(p, eloop) ==
    LET r == JoinRealPath(IF p.abs THEN <<>> ELSE Cwd, p.parts, {})
    IN [ok |-> ~(r.loop /\ eloop), parts |-> r.parts]

\* resolved_repo.relative_to(resolved_allowed) raising ValueError
\* relative_to as a test on the raw strings instead of the parts
RelativeToRaisesPrefix(child, parent) ==
    LET a == PathStr([abs |-> TRUE, parts |-> child])
        b == PathStr([abs |-> TRUE, parts |-> parent])
    IN ~(Len(b) <= Len(a) /\ SubSeq(a, 1, Len(b)) = b)

\* pathlib compares the parts: parent must be the first parts of child
RelativeToRaises(child, parent) ==
    LET n == Len(parent)
    IN ~(n <= Len(child) /\ SubSeq(child, 1, n) = parent)

NoLocals == [repo |-> Absent, allowed |-> Absent]

\* validate_repo_path(repo_path, allowed_repository): the exception raised
\* ("" when it returns) and the locals it computed
validate_repo_path(repo_path, allowed_repository, eloop) ==
    IF allowed_repository = Absent
    THEN [exc |-> "", kind |-> "", locals |-> NoLocals]
    ELSE LET rr == Resolve(repo_path, eloop)
             ra == Resolve(allowed_repository[1], eloop)
         IN IF ~rr.ok
            THEN [exc |-> "ValueError", kind |-> "invalid", locals |-> NoLocals]
            ELSE IF ~ra.ok
            THEN [exc |-> "ValueError", kind |-> "invalid",
                  locals |-> [repo |-> Some(rr.parts), allowed |-> Absent]]
            ELSE LET loc == [repo |-> Some(rr.parts), allowed |-> Some(ra.parts)]
                 IN IF RelativeToRaises(rr.parts, ra.parts)
                    THEN [exc |-> "ValueError", kind |-> "outside",
                          locals |-> loc]
                    ELSE [exc |-> "", kind |-> "", locals |-> loc]

\* git.Repo(path): the working tree it opens, or the exception it raises
GitRepo(p) ==
    LET r == JoinRealPath(IF p.abs THEN <<>> ELSE Cwd, p.parts, {})
    IN IF r.loop \/ r.parts \notin Dirs THEN [exc |-> "NoSuchPathError", dir |-> Absent]
       ELSE IF r.parts \notin RepoDirs
       THEN [exc |-> "InvalidGitRepositoryError", dir |-> Absent]
       ELSE [exc |-> "", dir |-> Some(r.parts)]

-----------------------------------------------------------------------------
(* Command lines and calls *)

\* An entry of an argument list: its text and where it comes from: "opt" for
\* an entry the builder wrote, "ref" / "path" / "pattern" for a user value in
\* a revision, path or pattern position, "None" for a None the call receives.
Lit(tok) == [tok |-> tok, role |-> "opt"]
Usr(tok, role) == [tok |-> tok, role |-> role]
NoneArg == [tok |-> <<>>, role |-> "None"]
PathArgs(ps) == [i \in 1..Len(ps) |-> Usr(ps[i], "path")]

Call(api, args) == [api |-> api, args |-> args]

\* repo.git.<cmd>(*args): GitPython drops the None arguments
GitCmd(cmd, args) == Call(cmd, SelectSeq(args, LAMBDA e : e.role # "None"))

Ret(cs, o) == [exc |-> "", msg |-> <<>>, calls |-> cs, out |-> o]
Raise(e, m, cs) == [exc |-> e, msg |-> m, calls |-> cs, out |-> <<>>]
\* a command handed to the git executable: its output, or GitCommandError
Run(cs, fail) == IF fail THEN Raise("GitCommandError", <<>>, cs) ELSE Ret(cs, <<"<output>">>)

DEFAULT_CONTEXT_LINES == 3

\* git_status with args a list shared by every call (a module-level list
\* instead of the local of line 138): it still holds what the other
\* invocation's builder put there
git_status_shared(a, fail) ==
    LET held == IF \E i \in 1..Len(other.calls) : other.calls[i].api = "git.status"
                THEN other.calls[CHOOSE i \in 1..Len(other.calls) :
                                     other.calls[i].api = "git.status"].args
                ELSE <<>>
        args == held \o (IF Truthy(a, "paths")
                         THEN <<Lit(SepStr)>> \o PathArgs(Val(a, "paths")) ELSE <<>>)
    IN Run(<<GitCmd("git.status", args)>>, fail)

git_status(a, fail) ==
    LET args == IF Truthy(a, "paths")
                THEN <<Lit(SepStr)>> \o PathArgs(Val(a, "paths")) ELSE <<>>
    IN Run(<<GitCmd("git.status", args)>>, fail)

git_diff_unstaged(a, fail) ==
    LET a1 == <<Lit(UnifiedStr \o IntToStr(Get(a, "context_lines", DEFAULT_CONTEXT_LINES)))>>
        a2 == IF Get(a, "ignore_whitespace", FALSE) THEN <<Lit(<<"-", "w">>)>> ELSE <<>>
        a3 == IF Truthy(a, "paths")
              THEN <<Lit(SepStr)>> \o PathArgs(Val(a, "paths")) ELSE <<>>
    IN Run(<<GitCmd("git.diff", a1 \o a2 \o a3)>>, fail)

git_diff_staged(a, fail) ==
    LET a1 == <<Lit(UnifiedStr \o IntToStr(Get(a, "context_lines", DEFAULT_CONTEXT_LINES))),
                Lit(CachedStr)>>
        a2 == IF Get(a, "ignore_whitespace", FALSE) THEN <<Lit(<<"-", "w">>)>> ELSE <<>>
        a3 == IF Truthy(a, "paths")
              THEN <<Lit(SepStr)>> \o PathArgs(Val(a, "paths")) ELSE <<>>
    IN Run(<<GitCmd("git.diff", a1 \o a2 \o a3)>>, fail)

\* repo.rev_parse(rev) on a repository holding the branches hs: the refs of
\* the modelled repositories are their branch heads.  The history and the
\* working tree are not tracked: no operation of the dispatcher reads them.
RevParse(rev) == Call("rev_parse", <<Usr(rev, "ref")>>)
Resolves(rev, hs) == rev \in hs

\* the revision entries of git_diff's argument list
\* the revision entries with merge_base left unread
DiffRevsTwoDots(a) ==
    IF Truthy(a, "base")
    THEN <<Usr(Val(a, "base"), "ref"), Usr(Val(a, "target"), "ref")>>
    ELSE <<Usr(Val(a, "target"), "ref")>>

DiffRevs(a) ==
    IF Truthy(a, "base")
    THEN IF Get(a, "merge_base", FALSE)
         THEN <<Usr(Val(a, "base") \o ThreeDots \o Val(a, "target"), "ref")>>
         ELSE <<Usr(Val(a, "base"), "ref"), Usr(Val(a, "target"), "ref")>>
    ELSE <<Usr(Val(a, "target"), "ref")>>

DiffArgs(a) ==
    LET a1 == <<Lit(UnifiedStr \o IntToStr(Get(a, "context_lines", DEFAULT_CONTEXT_LINES)))>>
        a2 == IF Get(a, "ignore_whitespace", FALSE) THEN <<Lit(<<"-", "w">>)>> ELSE <<>>
        a3 == IF Truthy(a, "paths")
              THEN <<Lit(SepStr)>> \o PathArgs(Val(a, "paths")) ELSE <<>>
    IN a1 \o a2 \o DiffRevs(a) \o a3

git_diff(a, hs, fail) ==
    LET target == Val(a, "target")
        base == Val(a, "base")
        c1 == <<RevParse(target)>>
        c2 == IF Truthy(a, "base") THEN <<RevParse(base)>> ELSE <<>>
    IN IF StartsWithDash(target)
       THEN Raise("BadName", <<"Invalid target: '">> \o target \o <<"' - cannot start with '-'">>, <<>>)
       ELSE IF Truthy(a, "base") /\ StartsWithDash(base)
       THEN Raise("BadName", <<"Invalid base: '">> \o base \o <<"' - cannot start with '-'">>, <<>>)
       ELSE IF ~Resolves(target, hs) THEN Raise("BadName", target, c1)
       ELSE IF Truthy(a, "base") /\ ~Resolves(base, hs) THEN Raise("BadName", base, c1 \o c2)
       ELSE Run(c1 \o c2 \o <<GitCmd("git.diff", DiffArgs(a))>>, fail)

git_commit(a) ==
    LET author == IF Truthy(a, "author_name") /\ Truthy(a, "author_email")
                  THEN <<Usr(Val(a, "author_name"), "author"),
                         Usr(Val(a, "author_email"), "author")>>
                  ELSE <<>>
    IN Ret(<<Call("index.commit", <<Usr(Val(a, "message"), "message")>> \o author)>>,
           <<"Changes committed successfully with hash ", "<hexsha>">>)

\* git_add handing the files over without the "--" entry
git_add_nosep(a, fail) ==
    LET r == Run(<<GitCmd("git.add", PathArgs(Val(a, "files")))>>, fail)
    IN IF r.exc = "" THEN Ret(r.calls, <<"Files staged successfully">>) ELSE r

git_add(a, fail) ==
    LET files == Val(a, "files")
        r == IF files = <<DotStr>>
             THEN Run(<<GitCmd("git.add", <<Lit(DotStr)>>)>>, fail)
             ELSE Run(<<GitCmd("git.add", <<Lit(SepStr)>> \o PathArgs(files))>>, fail)
    IN IF r.exc = "" THEN Ret(r.calls, <<"Files staged successfully">>) ELSE r

git_reset(a) ==
    IF Truthy(a, "paths")
    THEN Ret(<<Call("index.reset", PathArgs(Val(a, "paths")))>>,
             <<"Reset ">> \o IntToStr(Len(Val(a, "paths"))) \o <<" files">>)
    ELSE Ret(<<Call("index.reset", <<>>)>>, <<"All staged changes reset">>)

git_log(a) ==
    LET kw(k, role) == IF Truthy(a, k) THEN <<Usr(Val(a, k), role)>> ELSE <<>>
        args == <<Lit(IntToStr(Get(a, "max_count", 10)))>>
                \o kw("start_timestamp", "since") \o kw("end_timestamp", "until")
                \o kw("revision_range", "ref")
                \o (IF Truthy(a, "paths") THEN PathArgs(Val(a, "paths")) ELSE <<>>)
        commits == IF Get(a, "max_count", 10) = 0 THEN <<>> ELSE <<1>>
    IN Ret(<<Call("iter_commits", args)>>,
           [i \in 1..Len(commits) |-> <<"Commit: <hexsha>\nAuthor: <author>\nDate: <date>\nMessage: <message>\n">>])

\* git_create_branch creating the head before it looks the base up
git_create_branch_early(a, hs, act) ==
    LET nm == Val(a, "branch_name")
        useBase == Truthy(a, "base_branch")
        c1 == <<Call("create_head", <<Usr(nm, "ref")>>)>>
        c2 == IF useBase THEN <<Call("references", <<Usr(Val(a, "base_branch"), "ref")>>)>>
              ELSE <<Call("active_branch", <<>>)>>
        base == IF useBase THEN Val(a, "base_branch") ELSE act
    IN IF nm \in hs \/ nm = <<>> \/ StartsWithDash(nm)
       THEN Raise("GitCommandError", <<>>, c1)
       ELSE IF useBase /\ Val(a, "base_branch") \notin hs THEN Raise("IndexError", <<>>, c1 \o c2)
       ELSE Ret(c1 \o c2, <<"Created branch '">> \o nm \o <<"' from '">> \o base \o <<"'">>)

git_create_branch(a, hs, act) ==
    LET nm == Val(a, "branch_name")
        useBase == Truthy(a, "base_branch")
        c1 == IF useBase THEN <<Call("references", <<Usr(Val(a, "base_branch"), "ref")>>)>>
              ELSE <<Call("active_branch", <<>>)>>
        base == IF useBase THEN Val(a, "base_branch") ELSE act
        c2 == <<Call("create_head", <<Usr(nm, "ref"), Usr(base, "ref")>>)>>
    IN IF useBase /\ Val(a, "base_branch") \notin hs THEN Raise("IndexError", <<>>, c1)
       ELSE IF nm \in hs \/ nm = <<>> \/ StartsWithDash(nm)
       THEN Raise("GitCommandError", <<>>, c1 \o c2)
       ELSE Ret(c1 \o c2, <<"Created branch '">> \o nm \o <<"' from '">> \o base \o <<"'">>)

\* git_checkout without its "-" test and its rev_parse
git_checkout_unchecked(a, hs, fail) ==
    LET nm == Val(a, "branch_name")
        r == Run(<<GitCmd("git.checkout", <<Usr(nm, "ref")>>)>>,
                 fail \/ ~Resolves(nm, hs))
    IN IF r.exc = "" THEN Ret(r.calls, <<"Switched to branch '">> \o nm \o <<"'">>) ELSE r

git_checkout(a, hs, fail) ==
    LET nm == Val(a, "branch_name")
        c1 == <<RevParse(nm)>>
        r == Run(c1 \o <<GitCmd("git.checkout", <<Usr(nm, "ref")>>)>>, fail)
    IN IF StartsWithDash(nm)
       THEN Raise("BadName", <<"Invalid branch name: '">> \o nm \o <<"' - cannot start with '-'">>, <<>>)
       ELSE IF ~Resolves(nm, hs) THEN Raise("BadName", nm, c1)
       ELSE IF r.exc = "" THEN Ret(r.calls, <<"Switched to branch '">> \o nm \o <<"'">>)
       ELSE r

git_show(a, hs) ==
    LET rev == Val(a, "revision")
        c1 == <<Call("commit", <<Usr(rev, "ref")>>)>>
    IN IF ~Resolves(rev, hs) THEN Raise("BadName", rev, c1)
       ELSE Ret(c1 \o <<Call("commit.diff", <<>>)>>, <<"<commit>", "<patch>">>)

\* the grep argument list with the pattern passed positionally
GrepArgsPositional(a) ==
    LET a1 == IF Get(a, "ignore_case", FALSE) THEN <<Lit(<<"-", "i">>)>> ELSE <<>>
        a2 == IF Get(a, "line_numbers", TRUE) THEN <<Lit(<<"-", "n">>)>> ELSE <<>>
        a3 == <<Usr(Val(a, "pattern"), "pattern")>>
        a4 == IF Truthy(a, "revision") THEN <<Usr(Val(a, "revision"), "ref")>> ELSE <<>>
        a5 == <<Lit(SepStr)>>
        a6 == IF Truthy(a, "paths") THEN PathArgs(Val(a, "paths")) ELSE <<>>
    IN a1 \o a2 \o a3 \o a4 \o a5 \o a6

GrepArgs(a) ==
    LET a1 == IF Get(a, "ignore_case", FALSE) THEN <<Lit(<<"-", "i">>)>> ELSE <<>>
        a2 == IF Get(a, "line_numbers", TRUE) THEN <<Lit(<<"-", "n">>)>> ELSE <<>>
        a3 == <<Lit(<<"-", "e">>), Usr(Val(a, "pattern"), "pattern")>>
        a4 == IF Truthy(a, "revision") THEN <<Usr(Val(a, "revision"), "ref")>> ELSE <<>>
        a5 == <<Lit(SepStr)>>
        a6 == IF Truthy(a, "paths") THEN PathArgs(Val(a, "paths")) ELSE <<>>
    IN a1 \o a2 \o a3 \o a4 \o a5 \o a6

git_grep(a, fail) == Run(<<GitCmd("git.grep", GrepArgs(a))>>, fail)

LocalStr == <<"l", "o", "c", "a", "l">>
RemoteStr == <<"r", "e", "m", "o", "t", "e">>
AllStr == <<"a", "l", "l">>

\* git_branch treating every other branch_type as "all"
git_branch_lenient(a, fail) ==
    LET branch_type == Get(a, "branch_type", LocalStr)
        contains_sha == IF ~Has(a, "contains") THEN <<NoneArg>>
                        ELSE <<Lit(ContainsStr), Usr(Val(a, "contains"), "ref")>>
        not_contains_sha == IF ~Has(a, "not_contains") THEN <<NoneArg>>
                            ELSE <<Lit(NoContainsStr), Usr(Val(a, "not_contains"), "ref")>>
        b_type == IF branch_type = LocalStr THEN NoneArg
                  ELSE IF branch_type = RemoteStr THEN Lit(<<"-", "r">>)
                  ELSE Lit(<<"-", "a">>)
    IN Run(<<GitCmd("git.branch", <<b_type>> \o contains_sha \o not_contains_sha)>>, fail)

git_branch(a, fail) ==
    LET branch_type == Get(a, "branch_type", LocalStr)
        contains_sha == IF ~Has(a, "contains") THEN <<NoneArg>>
                        ELSE <<Lit(ContainsStr), Usr(Val(a, "contains"), "ref")>>
        not_contains_sha == IF ~Has(a, "not_contains") THEN <<NoneArg>>
                            ELSE <<Lit(NoContainsStr), Usr(Val(a, "not_contains"), "ref")>>
        b_type == IF branch_type = LocalStr THEN NoneArg
                  ELSE IF branch_type = RemoteStr THEN Lit(<<"-", "r">>)
                  ELSE Lit(<<"-", "a">>)
    IN IF branch_type \notin {LocalStr, RemoteStr, AllStr}
       THEN Ret(<<>>, <<"Invalid branch type: ">> \o branch_type)
       ELSE Run(<<GitCmd("git.branch", <<b_type>> \o contains_sha \o not_contains_sha)>>, fail)

-----------------------------------------------------------------------------
(* Requests *)

Keys == {"repo_path", "paths", "context_lines", "ignore_whitespace", "target",
         "base", "merge_base", "message", "author_name", "author_email", "files",
         "max_count", "revision_range", "start_timestamp", "end_timestamp",
         "branch_name", "base_branch", "revision", "pattern", "ignore_case",
         "line_numbers", "branch_type", "contains", "not_contains"}

NoArgs == [k \in Keys |-> Absent]

\* every mapping that gives each listed key one of its listed values
RECURSIVE Combos(_)
Combos(spec) ==
    IF spec = <<>> THEN {NoArgs}
    ELSE {[a EXCEPT ![spec[1][1]] = v] : a \in Combos(Tail(spec)), v \in spec[1][2]}

RefM == <<"m">>
RefF == <<"f">>
RefZ == <<"z">>
DashX == <<"-", "x">>
ATxt == <<"a", ".", "t", "x", "t">>
PatP == <<"p">>
BogusStr == <<"b", "o", "g", "u", "s">>

PathA == <<"/", "a">>
PathE == <<"/", "e">>
PathAS == <<"/", "a", "/", "s">>
PathAO == <<"/", "a", "-", "o">>
PathL == <<"/", "l">>
PathAK == <<"/", "a", "/", "k">>
PathX == <<"/", "x">>
PathN == <<"/", "n">>
PathUp == <<"/", "a", "/", ".", ".", "/", "e">>
PathRel == <<"s", "/", ".", ".">>
PathDot == <<"/", "a", "/", ".", "/">>
PathAX == <<"/", "a", "/", "x", "x">>

PathLists == {Absent, Some(<<>>), Some(<<ATxt, DashX>>)}
Flags == {Absent, Some(TRUE)}

ToolNames == {"git_status", "git_diff_unstaged", "git_diff_staged", "git_diff",
              "git_commit", "git_add", "git_reset", "git_log", "git_create_branch",
              "git_checkout", "git_show", "git_grep", "git_branch"}

ToolArgs(nm) ==
    CASE nm = "git_status" -> Combos(<< <<"paths", PathLists>> >>)
      [] nm = "git_diff_unstaged" ->
            Combos(<< <<"context_lines", {Absent, Some(0)}>>,
                      <<"ignore_whitespace", Flags>>,
                      <<"paths", {Absent, Some(<<ATxt, DashX>>)}>> >>)
      [] nm = "git_diff_staged" ->
            Combos(<< <<"context_lines", {Absent, Some(10)}>>,
                      <<"ignore_whitespace", Flags>>,
                      <<"paths", {Absent, Some(<<ATxt, DashX>>)}>> >>)
      [] nm = "git_diff" ->
            Combos(<< <<"target", {Absent, Some(RefF), Some(DashX), Some(RefZ)}>>,
                      <<"base", {Absent, Some(<<>>), Some(RefM), Some(DashX), Some(RefZ)}>>,
                      <<"merge_base", Flags>>,
                      <<"context_lines", {Absent, Some(0)}>>,
                      <<"ignore_whitespace", Flags>>,
                      <<"paths", {Absent, Some(<<ATxt, DashX>>)}>> >>)
      [] nm = "git_commit" ->
            Combos(<< <<"message", {Absent, Some(<<"c">>)}>>,
                      <<"author_name", {Absent, Some(<<"n">>)}>>,
                      <<"author_email", {Absent, Some(<<"e">>)}>> >>)
      [] nm = "git_add" ->
            Combos(<< <<"files", {Absent, Some(<<>>), Some(<<DotStr>>),
                                  Some(<<ATxt, DashX>>), Some(<<DotStr, ATxt>>)}>> >>)
      [] nm = "git_reset" -> Combos(<< <<"paths", PathLists>> >>)
      [] nm = "git_log" ->
            Combos(<< <<"max_count", {Absent, Some(0)}>>,
                      <<"revision_range", {Absent, Some(RefM), Some(DashX)}>>,
                      <<"paths", {Absent, Some(<<ATxt, DashX>>)}>>,
                      <<"start_timestamp", {Absent, Some(<<"y">>)}>>,
                      <<"end_timestamp", {Absent, Some(<<"y">>)}>> >>)
      [] nm = "git_create_branch" ->
            Combos(<< <<"branch_name", {Absent, Some(RefF), Some(RefM), Some(DashX)}>>,
                      <<"base_branch", {Absent, Some(<<>>), Some(RefM), Some(RefZ),
                                        Some(DashX)}>> >>)
      [] nm = "git_checkout" ->
            Combos(<< <<"branch_name", {Absent, Some(RefM), Some(RefF), Some(DashX),
                                        Some(RefZ)}>> >>)
      [] nm = "git_show" ->
            Combos(<< <<"revision", {Absent, Some(RefM), Some(DashX), Some(RefZ)}>> >>)
      [] nm = "git_grep" ->
            Combos(<< <<"pattern", {Absent, Some(PatP), Some(DashX)}>>,
                      <<"revision", {Absent, Some(<<>>), Some(RefM), Some(DashX)}>>,
                      <<"paths", PathLists>>,
                      <<"ignore_case", Flags>>,
                      <<"line_numbers", {Absent, Some(FALSE)}>> >>)
      [] nm = "git_branch" ->
            Combos(<< <<"branch_type", {Absent, Some(LocalStr), Some(RemoteStr),
                                        Some(AllStr), Some(BogusStr), Some(<<>>)}>>,
                      <<"contains", {Absent, Some(RefM), Some(DashX)}>>,
                      <<"not_contains", {Absent, Some(RefM), Some(DashX)}>> >>)
      [] OTHER -> {NoArgs}

\* the requests of the dispatcher's specification and of the path guard's
RepoPaths == {Absent, Some(PathA), Some(PathE), Some(PathAS)}
GuardPaths == {Absent, Some(PathA), Some(PathE), Some(PathAS), Some(PathAO),
               Some(PathL), Some(PathAK), Some(PathX), Some(PathN), Some(PathUp),
               Some(PathRel), Some(PathDot), Some(PathAX), Some(<<>>)}

\* serve(repository): a root that is no repository ends the server at start
Roots(ss) == {Absent} \cup {Some(PathOf(s)) : s \in {t \in ss : GitRepo(PathOf(t)).exc = ""}}

NoResult == [exc |-> "", msg |-> <<>>, at |-> "", content |-> <<>>]
Err(e, m, at) == [exc |-> e, msg |-> m, at |-> at, content |-> <<>>]
NoSession == [cap |-> FALSE, roots |-> <<>>]
NoListed == [exc |-> "", repos |-> <<>>]
\* the locals of an invocation of call_tool that has not started
NoRequest == [pc |-> "idle", name |-> "", arguments |-> NoArgs, resolved |-> NoLocals,
              repo |-> Absent, calls |-> <<>>, out |-> <<>>, result |-> NoResult]

InitRest ==
    /\ heads = [d \in RepoDirs |-> {RefM}]
    /\ active = [d \in RepoDirs |-> RefM]
    /\ staged = [d \in RepoDirs |-> FALSE]
    /\ pc = "idle"
    /\ name = ""
    /\ arguments = NoArgs
    /\ resolved = NoLocals
    /\ repo = Absent
    /\ calls = <<>>
    /\ out = <<>>
    /\ result = NoResult
    /\ session = NoSession
    /\ lpc = "idle"
    /\ rootsQueries = 0
    /\ listed = NoListed
    /\ other = NoRequest

Init == repository \in Roots({PathA, PathN}) /\ InitRest
InitGuard == repository \in Roots({PathA, PathL, PathE, PathAS, PathX}) /\ InitRest

-----------------------------------------------------------------------------
(* call_tool *)

ReceiveFrom(names, paths) ==
    /\ pc = "idle"
    /\ \E nm \in names : \E a \in ToolArgs(nm) : \E rp \in paths :
          /\ name' = nm
          /\ arguments' = [a EXCEPT !["repo_path"] = rp]
    /\ pc' = "Received"
    /\ UNCHANGED <<repository, gitVars, resolved, repo, calls, out, result, lstVars, other>>

Receive == ReceiveFrom(ToolNames \cup {"git_unknown"}, RepoPaths)
ReceiveGuard == ReceiveFrom({"git_status"}, GuardPaths)

OutsideMsg(repo_path, allowed) ==
    <<"Repository path '">> \o PathStr(repo_path)
        \o <<"' is outside the allowed repository '">> \o PathStr(allowed) \o <<"'">>

Rejection(v, repo_path) ==
    IF v.kind = "outside" THEN Err(v.exc, OutsideMsg(repo_path, repository[1]), "PathValidated")
    ELSE Err(v.exc, <<"Invalid path: ">> \o PathStr(repo_path), "PathValidated")

\* lines 467-470 with the guard's exception not ending the handler
PathValidateLax ==
    /\ pc = "Received"
    /\ IF ~Has(arguments, "repo_path")
       THEN /\ pc' = "Rejected"
            /\ result' = Err("KeyError", <<"repo_path">>, "Received")
            /\ UNCHANGED <<resolved, calls>>
       ELSE \E eloop \in BOOLEAN :
            LET repo_path == PathOf(Val(arguments, "repo_path"))
                v == validate_repo_path(repo_path, repository, eloop)
            IN /\ calls' = Append(calls, Call("validate_repo_path", <<>>))
               /\ resolved' = v.locals
               /\ pc' = "PathValidated"
               /\ result' = result
    /\ UNCHANGED <<repository, gitVars, name, arguments, repo, out, lstVars, other>>

\* lines 467-470 with the match on name moved before the path guard
PathValidateNameFirst ==
    /\ pc = "Received"
    /\ IF name \notin ToolNames
       THEN /\ pc' = "Rejected"
            /\ result' = Err("ValueError", <<"Unknown tool: ", name>>, "Received")
            /\ UNCHANGED <<resolved, calls>>
       ELSE IF ~Has(arguments, "repo_path")
       THEN /\ pc' = "Rejected"
            /\ result' = Err("KeyError", <<"repo_path">>, "Received")
            /\ UNCHANGED <<resolved, calls>>
       ELSE \E eloop \in BOOLEAN :
            LET repo_path == PathOf(Val(arguments, "repo_path"))
                v == validate_repo_path(repo_path, repository, eloop)
            IN /\ calls' = Append(calls, Call("validate_repo_path", <<>>))
               /\ resolved' = v.locals
               /\ IF v.exc # ""
                  THEN pc' = "Rejected" /\ result' = Rejection(v, repo_path)
                  ELSE pc' = "PathValidated" /\ result' = result
    /\ UNCHANGED <<repository, gitVars, name, arguments, repo, out, lstVars, other>>

\* lines 467-470: the repo_path lookup and the path guard
PathValidate ==
    /\ pc = "Received"
    /\ IF ~Has(arguments, "repo_path")
       THEN /\ pc' = "Rejected"
            /\ result' = Err("KeyError", <<"repo_path">>, "Received")
            /\ UNCHANGED <<resolved, calls>>
       ELSE \E eloop \in BOOLEAN :
            LET repo_path == PathOf(Val(arguments, "repo_path"))
                v == validate_repo_path(repo_path, repository, eloop)
            IN /\ calls' = Append(calls, Call("validate_repo_path", <<>>))
               /\ resolved' = v.locals
               /\ IF v.exc # ""
                  THEN pc' = "Rejected" /\ result' = Rejection(v, repo_path)
                  ELSE pc' = "PathValidated" /\ result' = result
    /\ UNCHANGED <<repository, gitVars, name, arguments, repo, out, lstVars, other>>

\* line 473
OpenRepo ==
    /\ pc = "PathValidated"
    /\ LET g == GitRepo(PathOf(Val(arguments, "repo_path")))
       IN /\ calls' = Append(calls, Call("git.Repo", <<>>))
          /\ IF g.exc # ""
             THEN /\ pc' = "Rejected"
                  /\ result' = Err(g.exc, <<>>, "RepositoryOpened")
                  /\ repo' = repo
             ELSE /\ pc' = "RepositoryOpened"
                  /\ result' = result
                  /\ repo' = g.dir
    /\ UNCHANGED <<repository, gitVars, name, arguments, resolved, out, lstVars, other>>

\* arguments[k] for a key the mapping lacks
KeyError(k) == Raise("KeyError", <<k>>, <<>>)
Need(k, r) == IF Has(arguments, k) THEN r ELSE KeyError(k)

\* the rest of a match arm, given what its builder did
Arm(nm, r) ==
    /\ pc = "RepositoryOpened"
    /\ name = nm
    /\ calls' = calls \o r.calls
    /\ IF r.exc = ""
       THEN pc' = "CommandExecuted" /\ out' = r.out /\ result' = result
       ELSE pc' = "Rejected" /\ out' = out /\ result' = Err(r.exc, r.msg, "CommandExecuted")
    /\ UNCHANGED <<repository, name, arguments, resolved, repo, lstVars, other>>

ExecStatus ==
    \E fail \in BOOLEAN :
        Arm("git_status", git_status(arguments, fail)) /\ UNCHANGED gitVars

ExecDiffUnstaged ==
    \E fail \in BOOLEAN :
        Arm("git_diff_unstaged", git_diff_unstaged(arguments, fail)) /\ UNCHANGED gitVars

ExecDiffStaged ==
    \E fail \in BOOLEAN :
        Arm("git_diff_staged", git_diff_staged(arguments, fail)) /\ UNCHANGED gitVars

ExecDiff ==
    \E fail \in BOOLEAN :
        /\ Arm("git_diff", Need("target", git_diff(arguments, heads[repo[1]], fail)))
        /\ UNCHANGED gitVars

ExecCommit ==
    LET r == Need("message", git_commit(arguments))
    IN /\ Arm("git_commit", r)
       /\ staged' = IF r.exc = "" THEN [staged EXCEPT ![repo[1]] = FALSE] ELSE staged
       /\ UNCHANGED <<heads, active>>

ExecAdd ==
    \E fail \in BOOLEAN :
        LET r == Need("files", git_add(arguments, fail))
        IN /\ Arm("git_add", r)
           /\ staged' = IF r.exc = "" THEN [staged EXCEPT ![repo[1]] = TRUE] ELSE staged
           /\ UNCHANGED <<heads, active>>

ExecReset ==
    LET r == git_reset(arguments)
    IN /\ Arm("git_reset", r)
       /\ staged' = [staged EXCEPT ![repo[1]] = FALSE]
       /\ UNCHANGED <<heads, active>>

ExecLog == Arm("git_log", git_log(arguments)) /\ UNCHANGED gitVars

ExecCreateBranch ==
    LET r == Need("branch_name",
                  git_create_branch(arguments, heads[repo[1]], active[repo[1]]))
    IN /\ Arm("git_create_branch", r)
       /\ heads' = IF r.exc = ""
                   THEN [heads EXCEPT ![repo[1]] = @ \cup {Val(arguments, "branch_name")}]
                   ELSE heads
       /\ UNCHANGED <<active, staged>>

ExecCheckout ==
    \E fail \in BOOLEAN :
        LET r == Need("branch_name", git_checkout(arguments, heads[repo[1]], fail))
        IN /\ Arm("git_checkout", r)
           /\ active' = IF r.exc = ""
                        THEN [active EXCEPT ![repo[1]] = Val(arguments, "branch_name")]
                        ELSE active
           /\ UNCHANGED <<heads, staged>>

ExecShow ==
    Arm("git_show", Need("revision", git_show(arguments, heads[repo[1]]))) /\ UNCHANGED gitVars

ExecGrep ==
    \E fail \in BOOLEAN :
        Arm("git_grep", Need("pattern", git_grep(arguments, fail))) /\ UNCHANGED gitVars

ExecBranch ==
    \E fail \in BOOLEAN :
        Arm("git_branch", git_branch(arguments, fail)) /\ UNCHANGED gitVars

ExecUnknown ==
    /\ name \notin ToolNames
    /\ Arm(name, Raise("ValueError", <<"Unknown tool: ", name>>, <<>>))
    /\ UNCHANGED gitVars

RECURSIVE JoinLines(_)
JoinLines(ls) ==
    IF ls = <<>> THEN <<>>
    ELSE IF Len(ls) = 1 THEN ls[1]
    ELSE ls[1] \o <<"\n">> \o JoinLines(Tail(ls))

\* the text call_tool wraps the builder's result into
ResponseText(nm, a, o) ==
    CASE nm = "git_status" -> <<"Repository status:\n">> \o o
      [] nm = "git_diff_unstaged" -> <<"Unstaged changes:\n">> \o o
      [] nm = "git_diff_staged" -> <<"Staged changes:\n">> \o o
      [] nm = "git_diff" -> <<"Diff with ">> \o Val(a, "target") \o <<":\n">> \o o
      [] nm = "git_log" -> <<"Commit history:\n">> \o JoinLines(o)
      [] OTHER -> o

Respond ==
    /\ pc = "CommandExecuted"
    /\ pc' = "ResponseEmitted"
    /\ result' = [exc |-> "", msg |-> <<>>, at |-> "ResponseEmitted",
                  content |-> <<[type |-> "text", text |-> ResponseText(name, arguments, out)]>>]
    /\ UNCHANGED <<repository, gitVars, name, arguments, resolved, repo, calls, out, lstVars, other>>

\* the handler has returned or raised; the next request may arrive
Finish ==
    /\ pc \in {"ResponseEmitted", "Rejected"}
    /\ pc' = "idle"
    /\ name' = ""
    /\ arguments' = NoArgs
    /\ resolved' = NoLocals
    /\ repo' = Absent
    /\ calls' = <<>>
    /\ out' = <<>>
    /\ result' = NoResult
    /\ UNCHANGED <<repository, gitVars, lstVars, other>>

Next ==
    \/ Receive \/ PathValidate \/ OpenRepo
    \/ ExecStatus \/ ExecDiffUnstaged \/ ExecDiffStaged \/ ExecDiff
    \/ ExecCommit \/ ExecAdd \/ ExecReset \/ ExecLog
    \/ ExecCreateBranch \/ ExecCheckout \/ ExecShow \/ ExecGrep \/ ExecBranch
    \/ ExecUnknown \/ Respond \/ Finish

Spec == Init /\ [][Next]_vars

NextGuard == ReceiveGuard \/ PathValidate \/ OpenRepo \/ ExecStatus \/ Respond \/ Finish

SpecGuard == InitGuard /\ [][NextGuard]_vars

-----------------------------------------------------------------------------
(* two invocations of call_tool in flight *)

\* the requests of the concurrent specification: name and arguments
ConcRequests ==
    {[name |-> "git_status", arguments |-> a] :
        a \in Combos(<< <<"paths", {Absent, Some(<<ATxt>>)}>> >>)}
    \cup {[name |-> "git_create_branch", arguments |-> a] :
        a \in Combos(<< <<"branch_name", {Some(RefF), Some(RefM)}>> >>)}
    \cup {[name |-> "git_checkout", arguments |-> a] :
        a \in Combos(<< <<"branch_name", {Some(RefF)}>> >>)}

ReceiveConc ==
    /\ pc = "idle"
    /\ \E rq \in ConcRequests : \E rp \in {PathA, PathE} :
          /\ name' = rq.name
          /\ arguments' = [rq.arguments EXCEPT !["repo_path"] = Some(rp)]
    /\ pc' = "Received"
    /\ UNCHANGED <<repository, gitVars, resolved, repo, calls, out, result, lstVars, other>>

\* the locals of the invocation that is running
This == [pc |-> pc, name |-> name, arguments |-> arguments, resolved |-> resolved,
         repo |-> repo, calls |-> calls, out |-> out, result |-> result]

\* the host runs the other invocation: between any two steps of one
\* call_tool the other may take any number of its own
Switch ==
    /\ other' = This
    /\ pc' = other.pc
    /\ name' = other.name
    /\ arguments' = other.arguments
    /\ resolved' = other.resolved
    /\ repo' = other.repo
    /\ calls' = other.calls
    /\ out' = other.out
    /\ result' = other.result
    /\ UNCHANGED <<repository, gitVars, lstVars>>

InitConc == repository \in Roots({PathA}) /\ InitRest

NextConc ==
    \/ ReceiveConc \/ Switch \/ PathValidate \/ OpenRepo
    \/ ExecStatus \/ ExecCreateBranch \/ ExecCheckout
    \/ Respond \/ Finish

SpecConc == InitConc /\ [][NextConc]_vars

-----------------------------------------------------------------------------
(* list_repos *)

MaxRoots == 2

\* the roots a session may advertise: two repositories, a plain directory
\* and a path that does not exist
RootPaths == {PathA, PathE, PathAS, PathN}
RootLists == UNION {[1..n -> RootPaths] : n \in 0..MaxRoots}

\* by_roots' loop over roots_result.roots, repo_paths being what it has kept
RECURSIVE RootsLoop(_, _)
RootsLoop(roots, repo_paths) ==
    IF roots = <<>> THEN [exc |-> "", repos |-> repo_paths]
    ELSE LET path == Head(roots)
             g == GitRepo(PathOf(path))
         IN IF g.exc = "" THEN RootsLoop(Tail(roots), Append(repo_paths, path))
            ELSE IF g.exc = "InvalidGitRepositoryError"
            THEN RootsLoop(Tail(roots), repo_paths)
            ELSE [exc |-> g.exc, repos |-> <<>>]

by_commandline == IF repository # Absent THEN <<PathStr(repository[1])>> ELSE <<>>

\* list_repos up to its await: without the roots capability it returns at once
ListReposStart ==
    /\ lpc = "idle"
    /\ \E cap \in BOOLEAN : \E roots \in RootLists :
          /\ session' = [cap |-> cap, roots |-> roots]
          /\ IF ~cap
             THEN /\ lpc' = "done"
                  /\ listed' = [exc |-> "", repos |-> <<>> \o by_commandline]
                  /\ rootsQueries' = rootsQueries
             ELSE /\ lpc' = "awaiting"
                  /\ listed' = listed
                  /\ rootsQueries' = rootsQueries + 1
    /\ UNCHANGED <<repository, gitVars, reqVars, other>>

\* the session's answer to list_roots() arrives
ListReposRoots ==
    /\ lpc = "awaiting"
    /\ lpc' = "done"
    /\ LET r == RootsLoop(session.roots, <<>>)
       IN listed' = IF r.exc = "" THEN [exc |-> "", repos |-> r.repos \o by_commandline]
                    ELSE r
    /\ UNCHANGED <<repository, gitVars, reqVars, session, rootsQueries, other>>

ListReposReturn ==
    /\ lpc = "done"
    /\ lpc' = "idle"
    /\ session' = NoSession
    /\ rootsQueries' = 0
    /\ listed' = NoListed
    /\ UNCHANGED <<repository, gitVars, reqVars, other>>

InitRepos == repository \in Roots({PathA, PathE, PathAS}) /\ InitRest

NextRepos == ListReposStart \/ ListReposRoots \/ ListReposReturn

SpecRepos == InitRepos /\ [][NextRepos]_vars

-----------------------------------------------------------------------------
(* Claims *)

Apis(cs) == [i \in 1..Len(cs) |-> cs[i].api]

\* validate_repo_path raises for the request's repo_path, whatever the runtime
GuardRejects ==
    /\ Has(arguments, "repo_path")
    /\ \A eloop \in BOOLEAN :
          validate_repo_path(PathOf(Val(arguments, "repo_path")), repository, eloop).exc # ""
GuardAccepts ==
    /\ Has(arguments, "repo_path")
    /\ \E eloop \in BOOLEAN :
          validate_repo_path(PathOf(Val(arguments, "repo_path")), repository, eloop).exc = ""

\* C1: a request whose repo_path validate_repo_path rejects opens no
\* repository handle and runs no builder or command (its only call is the
\* validation); and a handle is open only when validate_repo_path was called
\* before git.Repo and returned for that same repo_path.
C1_NoHandleWithoutGuard ==
    /\ (pc # "idle" /\ GuardRejects) =>
          /\ repo = Absent
          /\ out = <<>>
          /\ \A i \in 1..Len(calls) : calls[i].api = "validate_repo_path"
    /\ (pc = "Rejected" /\ result.at = "PathValidated") =>
          /\ repo = Absent
          /\ Apis(calls) = <<"validate_repo_path">>
    /\ repo # Absent =>
          /\ GuardAccepts
          /\ Len(calls) >= 2
          /\ calls[1].api = "validate_repo_path"
          /\ calls[2].api = "git.Repo"
          /\ \A i \in 3..Len(calls) : calls[i].api \notin {"validate_repo_path", "git.Repo"}

\* a mutating request to a repository outside the allowed root has been refused
C1_Witness ==
    /\ pc = "Rejected"
    /\ result.at = "PathValidated"
    /\ name = "git_commit"
    /\ repository # Absent
    /\ Has(arguments, "repo_path") /\ Val(arguments, "repo_path") = PathE

\* the canonical path c equals the canonical root r or lies below it:
\* r is c itself or one of c's ancestors
Ancestors(c) == {SubSeq(c, 1, k) : k \in 0..Len(c)}
InsideRoot(c, r) == r \in Ancestors(c)

GuardRan == Len(calls) >= 1 /\ calls[1].api = "validate_repo_path"
GuardFailed == pc = "Rejected" /\ result.at = "PathValidated"

\* C2: once validate_repo_path has run: with no allowed root it has returned
\* and resolved nothing; with a root and both paths resolved it has returned
\* exactly when the canonical candidate is the canonical root or a descendant
\* of it by whole segments, and otherwise it has raised the
\* outside-the-allowed-repository error.
C2_GuardMatchesReference ==
    GuardRan =>
        /\ repository = Absent => (~GuardFailed /\ resolved = NoLocals)
        /\ (repository # Absent /\ resolved.repo # Absent /\ resolved.allowed # Absent) =>
              /\ ~GuardFailed <=> InsideRoot(resolved.repo[1], resolved.allowed[1])
              /\ GuardFailed =>
                    /\ result.exc = "ValueError"
                    /\ result.msg[1] = "Repository path '"
        /\ (repository # Absent /\ GuardFailed /\ result.msg[1] # "Repository path '") =>
              (resolved.repo = Absent \/ resolved.allowed = Absent)

\* the sibling /a-o of the allowed root /a has been refused
C2_Witness ==
    /\ GuardFailed
    /\ resolved.repo = Some(<<SegAO>>)
    /\ resolved.allowed = Some(<<SegA>>)
    /\ result.msg[1] = "Repository path '"

\* the match arm of the request has run (it returned or raised)
ArmRan == repo # Absent /\ pc \in {"CommandExecuted", "ResponseEmitted", "Rejected"}
Toks(args) == [i \in 1..Len(args) |-> args[i].tok]
HasCall(api) == \E k \in 1..Len(calls) : calls[k].api = api
TheCall(api) == calls[CHOOSE k \in 1..Len(calls) : calls[k].api = api]

\* a diff whose target or base, or a checkout whose branch name, begins with "-"
DashRequest ==
    \/ /\ name = "git_diff"
       /\ Has(arguments, "target")
       /\ \/ StartsWithDash(Val(arguments, "target"))
          \/ Has(arguments, "base") /\ StartsWithDash(Val(arguments, "base"))
    \/ /\ name = "git_checkout"
       /\ Has(arguments, "branch_name")
       /\ StartsWithDash(Val(arguments, "branch_name"))

\* what git_checkout raises for a branch name that does not resolve
UnresolvedRefError ==
    git_checkout([NoArgs EXCEPT !["branch_name"] = Some(RefZ)], {RefM}, FALSE)

DashRejectedEarly ==
    /\ pc = "Rejected"
    /\ result.at = "CommandExecuted"
    /\ result.exc = "BadName"
    /\ Apis(calls) = <<"validate_repo_path", "git.Repo">>

IsCommand(c) ==
    c.api \in {"git.status", "git.diff", "git.add", "git.checkout", "git.grep", "git.branch"}
AfterSeparator(args, i) == \E j \in 1..(i - 1) : args[j] = Lit(SepStr)

\* C4: in every command line built for the git executable, a user value in a
\* ref or path position that begins with "-" stands after a "--" entry
\* (requests refused before the command line is built have no command line).
C4_DashEntriesAfterSeparator ==
    \A k \in 1..Len(calls) :
        IsCommand(calls[k]) =>
            \A i \in 1..Len(calls[k].args) :
                (/\ calls[k].args[i].role \in {"ref", "path"}
                 /\ StartsWithDash(calls[k].args[i].tok))
                    => AfterSeparator(calls[k].args, i)

CommandOf(nm) ==
    CASE nm = "git_status" -> "git.status"
      [] nm \in {"git_diff_unstaged", "git_diff_staged", "git_diff"} -> "git.diff"
      [] nm = "git_grep" -> "git.grep"
      [] nm = "git_add" -> "git.add"
      [] OTHER -> ""

\* the list of paths the request supplies
PathList == IF name = "git_add" THEN Get(arguments, "files", <<>>)
            ELSE Get(arguments, "paths", <<>>)

\* C5: in the command of status, diff-unstaged, diff-staged, diff, grep and
\* add, the paths supplied stand after a "--" entry, in the order supplied,
\* with nothing else after it and no path before it; add of exactly ["."] is
\* the command add . and add of ["a.txt", "-x"] is add -- a.txt -x.
C5_PathsAfterSeparator ==
    (CommandOf(name) # "" /\ HasCall(CommandOf(name))) =>
        LET args == TheCall(CommandOf(name)).args
        IN /\ IF name = "git_add" /\ PathList = <<DotStr>>
              THEN Toks(args) = <<DotStr>>
              ELSE IF PathList = <<>>
              THEN \A i \in 1..Len(args) : args[i].role # "path"
              ELSE \E i \in 1..Len(args) :
                      /\ args[i] = Lit(SepStr)
                      /\ SubSeq(args, i + 1, Len(args)) = PathArgs(PathList)
                      /\ \A j \in 1..i : args[j].role # "path"
           /\ (name = "git_add" /\ PathList = <<ATxt, DashX>>) =>
                 Toks(args) = <<SepStr, ATxt, DashX>>

\* add has run with a path that begins with "-"
C5_Witness ==
    /\ name = "git_add"
    /\ pc = "CommandExecuted"
    /\ HasCall("git.add")
    /\ PathList = <<ATxt, DashX>>

\* the argument list the claim describes for a diff, `given` saying whether
\* the request counts as having a base
DiffShape(given) ==
    LET T == Val(arguments, "target")
        B == Val(arguments, "base")
        pre == <<UnifiedStr \o IntToStr(Get(arguments, "context_lines", 3))>>
               \o (IF Get(arguments, "ignore_whitespace", FALSE) THEN << <<"-", "w">> >> ELSE <<>>)
        revs == IF given
                THEN IF Get(arguments, "merge_base", FALSE)
                     THEN <<B \o ThreeDots \o T>> ELSE <<B, T>>
                ELSE <<T>>
        post == IF PathList = <<>> THEN <<>> ELSE <<SepStr>> \o PathList
    IN Toks(TheCall("git.diff").args) = pre \o revs \o post

\* C6 (as amended): for an accepted diff, a non-empty base with merge_base
\* gives the single entry B...T, a non-empty base without merge_base the
\* entries B, T, and no base or an empty one the single entry T; the revision
\* entries follow --unified=<n> (and -w) and precede the "--" path section.
C6_DiffRevisions ==
    (name = "git_diff" /\ HasCall("git.diff")) => DiffShape(Truthy(arguments, "base"))

\* C6 as stated: every base that is given, the empty string included, counts
C6_Original ==
    (name = "git_diff" /\ HasCall("git.diff")) => DiffShape(Has(arguments, "base"))

\* a merge-base diff of two different branches, with paths, has been built
C6_Witness ==
    /\ name = "git_diff"
    /\ HasCall("git.diff")
    /\ Toks(TheCall("git.diff").args) =
          <<UnifiedStr \o <<"3">>, RefM \o ThreeDots \o RefF, SepStr, ATxt, DashX>>

MutatingTools == {"git_commit", "git_add", "git_reset", "git_create_branch", "git_checkout"}
MutatingApis == {"index.commit", "git.add", "index.reset", "create_head", "git.checkout"}
\* what the validation steps raise: a missing field, the path guard, git.Repo,
\* a "-" or unresolved checkout target, an unknown create-branch base
ValidationErrors == {"KeyError", "ValueError", "NoSuchPathError",
                     "InvalidGitRepositoryError", "BadName", "IndexError"}
NoMutatingCall == \A k \in 1..Len(calls) : calls[k].api \notin MutatingApis

\* C7: a step that ends a request to commit, add, reset, create-branch or
\* checkout in a validation failure leaves a request that has issued no
\* mutating call, and the repositories change only in a step that completes
\* the command of such a request, never in one that rejects it.
C7_NoMutationOnRejection ==
    [][/\ (/\ pc' = "Rejected"
           /\ name' \in MutatingTools
           /\ result'.exc \in ValidationErrors)
              => (NoMutatingCall' /\ UNCHANGED gitVars)
       /\ ~(UNCHANGED gitVars) =>
              (/\ pc' = "CommandExecuted"
               /\ name' \in MutatingTools
               /\ calls'[Len(calls')].api \in MutatingApis)]_vars

\* create-branch has been refused for a base that is no reference
C7_Witness ==
    /\ pc = "Rejected"
    /\ name = "git_create_branch"
    /\ result.exc = "IndexError"
    /\ Has(arguments, "branch_name") /\ Val(arguments, "branch_name") = RefF
    /\ Has(arguments, "base_branch") /\ Val(arguments, "base_branch") = RefZ

InvalidTypeRequest ==
    /\ name = "git_branch"
    /\ Has(arguments, "branch_type")
    /\ Val(arguments, "branch_type") \notin {LocalStr, RemoteStr, AllStr}

\* C8: branch-list with a branch_type other than local, remote or all does
\* not raise and runs no branch command: it returns the one text segment
\* "Invalid branch type: X", whatever contains and not_contains are.
C8_InvalidBranchType ==
    (ArmRan /\ InvalidTypeRequest) =>
        LET text == <<"Invalid branch type: ">> \o Val(arguments, "branch_type")
        IN /\ pc # "Rejected"
           /\ ~HasCall("git.branch")
           /\ Apis(calls) = <<"validate_repo_path", "git.Repo">>
           /\ out = text
           /\ pc = "ResponseEmitted" =>
                 (result.exc = "" /\ result.content = <<[type |-> "text", text |-> text]>>)

\* the response to branch_type "bogus" with both commit filters set
C8_Witness ==
    /\ pc = "ResponseEmitted"
    /\ InvalidTypeRequest
    /\ Val(arguments, "branch_type") = BogusStr
    /\ Has(arguments, "contains") /\ Has(arguments, "not_contains")
    /\ Len(result.content) = 1

IsValidRepo(path) == LET r == JoinRealPath(<<>>, PathOf(path).parts, {})
                     IN ~r.loop /\ r.parts \in RepoDirs
ValidRoots(roots) == SelectSeq(roots, IsValidRepo)

\* C9: list_repos returns the advertised roots that are repositories, in
\* the order advertised, then the configured repository if there is one;
\* without the roots capability the first part is empty and no roots query
\* is sent.
C9_ListReposExact ==
    lpc = "done" =>
        /\ listed.exc = ""
        /\ listed.repos = (IF session.cap THEN ValidRoots(session.roots) ELSE <<>>)
                          \o (IF repository = Absent THEN <<>> ELSE <<PathStr(repository[1])>>)
        /\ ~session.cap => rootsQueries = 0

\* C10: the grep command holds the pattern once, right after -e; only -i and
\* -n stand before -e; a "--" entry follows the pattern and the path filters,
\* and nothing else, follow it.
C10_GrepPatternAfterE ==
    (name = "git_grep" /\ HasCall("git.grep")) =>
        LET args == TheCall("git.grep").args
            n == Len(args)
        IN \E i \in 2..n :
              /\ args[i] = Usr(Val(arguments, "pattern"), "pattern")
              /\ args[i - 1] = Lit(<<"-", "e">>)
              /\ \A j \in 1..n : args[j].role = "pattern" => j = i
              /\ \A j \in 1..(i - 2) : args[j] \in {Lit(<<"-", "i">>), Lit(<<"-", "n">>)}
              /\ Get(arguments, "ignore_case", FALSE) =>
                    \E j \in 1..(i - 2) : args[j] = Lit(<<"-", "i">>)
              /\ Get(arguments, "line_numbers", TRUE) =>
                    \E j \in 1..(i - 2) : args[j] = Lit(<<"-", "n">>)
              /\ \E k \in (i + 1)..n :
                    /\ args[k] = Lit(SepStr)
                    /\ SubSeq(args, k + 1, n) = PathArgs(PathList)
                    /\ \A j \in 1..k : args[j].role # "path"

\* a grep for a pattern that begins with "-", with path filters, has run
C10_Witness ==
    /\ name = "git_grep"
    /\ pc = "CommandExecuted"
    /\ Has(arguments, "pattern") /\ Val(arguments, "pattern") = DashX
    /\ PathList = <<ATxt, DashX>>
    /\ Get(arguments, "ignore_case", FALSE)

\* the stages of a request, in order
Stages == <<"Received", "PathValidated", "RepositoryOpened", "CommandExecuted",
            "ResponseEmitted">>

\* a step of a request: from a stage to the next one or to Rejected, and
\* from ResponseEmitted or Rejected to nothing but the end of the request
StageStep ==
    \/ pc' = pc
    \/ pc = "idle" /\ pc' = "Received"
    \/ \E i \in 1..(Len(Stages) - 1) :
          pc = Stages[i] /\ pc' \in {Stages[i + 1], "Rejected"}
    \/ pc \in {"ResponseEmitted", "Rejected"} /\ pc' = "idle"

PathError(r) ==
    /\ r.exc = "ValueError"
    /\ r.msg # <<>>
    /\ r.msg[1] \in {"Repository path '", "Invalid path: "}
NotARepository(r) == r.exc \in {"NoSuchPathError", "InvalidGitRepositoryError"}
UnknownTool(r) == r.exc = "ValueError" /\ r.msg = <<"Unknown tool: ", name>>

\* what a rejection that just happened is, by the request it ends
RejectedInOrder ==
    /\ ~Has(arguments, "repo_path") =>
          /\ pc = "Received"
          /\ result'.exc = "KeyError" /\ result'.at = "Received"
          /\ calls' = <<>>
    /\ GuardRejects =>
          /\ pc = "Received"
          /\ PathError(result') /\ result'.at = "PathValidated"
          /\ Apis(calls') = <<"validate_repo_path">>
    /\ (GuardAccepts /\ GitRepo(PathOf(Val(arguments, "repo_path"))).exc # "") =>
          /\ pc = "PathValidated"
          /\ NotARepository(result') /\ result'.at = "RepositoryOpened"
          /\ Apis(calls') = <<"validate_repo_path", "git.Repo">>
          /\ repo' = Absent
    /\ (name \notin ToolNames /\ UnknownTool(result')) =>
          /\ pc = "RepositoryOpened"
          /\ result'.at = "CommandExecuted"
          /\ Apis(calls') = <<"validate_repo_path", "git.Repo">>
          /\ repo' # Absent
    /\ (name \notin ToolNames /\ GuardAccepts
          /\ GitRepo(PathOf(Val(arguments, "repo_path"))).exc = "") =>
          UnknownTool(result')

\* C11: every step of a request leads from a stage to the next one of
\* Received, PathValidated, RepositoryOpened, CommandExecuted,
\* ResponseEmitted or to Rejected, after which the request only ends.  A
\* rejection is the KeyError of a missing repo_path at Received with nothing
\* called, the path guard's error at PathValidated with only the guard
\* called, git.Repo's error at RepositoryOpened with no handle, and for a
\* name that is no tool the "Unknown tool" ValueError at CommandExecuted,
\* raised only with the guard passed and the handle open: with a path the
\* guard rejects the path error is the one raised.  A name that is no tool
\* never reaches CommandExecuted, and a step to ResponseEmitted returns
\* exactly one content item, of type text.
C11_StagesInOrder ==
    [][/\ StageStep
       /\ (pc # "Rejected" /\ pc' = "Rejected") => RejectedInOrder
       /\ pc' = "CommandExecuted" => name \in ToolNames
       /\ (pc # "ResponseEmitted" /\ pc' = "ResponseEmitted") =>
             /\ pc = "CommandExecuted"
             /\ Len(result'.content) = 1
             /\ result'.content[1].type = "text"
             /\ result'.exc = ""]_vars

\* a request naming no tool, for a repository outside the allowed root, has
\* been answered with the path guard's error
C11_Witness ==
    /\ pc = "Rejected"
    /\ name \notin ToolNames
    /\ repository # Absent
    /\ Has(arguments, "repo_path") /\ Val(arguments, "repo_path") = PathE
    /\ PathError(result)
    /\ result.at = "PathValidated"

\* the two invocations in flight hold the same request
SameRequest ==
    /\ pc # "idle" /\ other.pc # "idle"
    /\ name = other.name
    /\ arguments = other.arguments

\* what validate_repo_path did for the invocation s, once it has run
GuardDone(s) == Len(s.calls) >= 1
GuardVerdict(s) ==
    IF s.pc = "Rejected" /\ Len(s.calls) = 1
    THEN [exc |-> s.result.exc, msg |-> s.result.msg]
    ELSE [exc |-> "", msg |-> <<>>]

\* what git.Repo returned to the invocation s, once it has run
OpenDone(s) == Len(s.calls) >= 2

Common(s, t) == 1..(IF Len(s.calls) < Len(t.calls) THEN Len(s.calls) ELSE Len(t.calls))

\* the k-th calls of s and t are the same call with the same argument list
SameCall(s, t, k) == s.calls[k] = t.calls[k]

\* the same, but for the base entry of create_head when the request gives
\* no base_branch
SameCallButBase(s, t, k) ==
    IF s.calls[k].api = "create_head" /\ ~Truthy(s.arguments, "base_branch")
    THEN /\ t.calls[k].api = "create_head"
         /\ s.calls[k].args[1] = t.calls[k].args[1]
    ELSE SameCall(s, t, k)

Isolated(s, t, Same(_, _, _)) ==
    /\ (GuardDone(s) /\ GuardDone(t)) => GuardVerdict(s) = GuardVerdict(t)
    /\ (OpenDone(s) /\ OpenDone(t)) => s.repo = t.repo
    /\ \A k \in Common(s, t) : Same(s, t, k)

====
